---- MODULE Spec2Model ----
(***************************************************************************)
(* Model of reward_function.py: the steer-to-a-point-ahead reward.         *)
(*                                                                         *)
(* Numbers.  The program computes in floating point; the model computes in *)
(* exact fixed point:                                                      *)
(*   - a coordinate or a length is an integer number of length units; the  *)
(*     waypoints fed to up_sample are multiples of UpSampleFactor units,   *)
(*     so each term i/factor * c of the interpolation is an integer for    *)
(*     every factor that divides UpSampleFactor;                           *)
(*   - track_width is a multiple of 10 units, so track_width * 0.9 is an   *)
(*     integer;                                                            *)
(*   - dist is kept squared (distSq): the square root is strictly          *)
(*     increasing, so the minimum, its first index and the comparison      *)
(*     with r are decided by the squares (and by the sign of r);           *)
(*   - an angle is an integer number of degrees;                           *)
(*   - a score is an integer number of 1/6000, so 1.0 is ScoreOne = 6000,  *)
(*     0.01 is ScoreFloor = 60 and one degree of error costs 100.          *)
(* Python lists are sequences; a list index i (from 0) is position i + 1.  *)
(***************************************************************************)
EXTENDS Integers, Sequences, FiniteSets

VARIABLES
    pc,                  \* position of the call in progress
    params,              \* the parameter bundle (a dict in the code)
    ordered,             \* result of get_waypoints_ordered_in_driving_direction
    waypoints,           \* get_target_point: the densified list
    i_closest,           \* get_target_point: index of the closest point
    target,              \* result of get_target_point
    branch,              \* which return statement of get_target_point ran
    best_stearing_angle, \* result of get_target_steering_degree
    score,               \* result of score_steer_to_point_ahead
    reward,              \* result of reward_function
    raised,              \* the exception that ended the call, if any
    arg,                 \* argument of a direct call of a helper
    ret                  \* its result

vars == <<pc, params, ordered, waypoints, i_closest, target, branch,
          best_stearing_angle, score, reward, raised, arg, ret>>

None == "None"

NoError == "no error"

MinOfEmpty == "ValueError: min() arg is an empty sequence"

NotInList == "ValueError: False is not in list"

-----------------------------------------------------------------------------
(* Bounds of the model *)

MaxN == 3

MaxTrackWidth == 3

OctantSteps == 2

MaxAngle == 800

MaxTurns == 2

(* Program constants *)

UpSampleFactor == 20

ScoreOne == 6000

ScoreFloor == 60

-----------------------------------------------------------------------------
(* Helpers of the arithmetic *)

Abs(v) == IF v < 0 THEN -v ELSE v

Max(a, b) == IF a >= b THEN a ELSE b

Min(S) == CHOOSE m \in S : \A v \in S : m <= v

Range(s) == {s[k] : k \in 1..Len(s)}

\* list.index(v): the lowest index holding v (the code's lists hold it or the
\* call raises ValueError, which IndexRaises decides)
IndexRaises(s, v) == \A k \in 1..Len(s) : s[k] # v

Index(s, v) == Min({k \in 1..Len(s) : s[k] = v}) - 1

\* list(reversed(s))
Reversed(s) == [k \in 1..Len(s) |-> s[Len(s) + 1 - k]]

-----------------------------------------------------------------------------
(* The functions of reward_function.py *)

distSq(point1, point2) ==
    (point1[1] - point2[1]) * (point1[1] - point2[1])
  + (point1[2] - point2[2]) * (point1[2] - point2[2])

\* mutant: the squares compared without the sign of r
IsInside_Unsigned(p, car, r) == distSq(p, car) < r * r

\* dist(p, car) < r
IsInside(p, car, r) == r > 0 /\ distSq(p, car) < r * r

\* The angles math.degrees(math.atan2(y, x)) can give for the direction (x, y):
\* exact on the axes and the diagonals (atan2(0, 0) is 0), and inside an octant
\* any of OctantSteps sample angles strictly inside that octant.
OctantInterior(lo) == {lo + (45 * k) \div (OctantSteps + 1) : k \in 1..OctantSteps}

theta0(x, y) ==
    \* first quadrant, x >= 0 and y >= 0
    IF y = 0 THEN {0}
    ELSE IF x = 0 THEN {90}
    ELSE IF x = y THEN {45}
    ELSE IF y < x THEN OctantInterior(0)
    ELSE OctantInterior(45)

polar_theta(x, y) ==
    IF y >= 0
    THEN IF x >= 0 THEN theta0(x, y)
                   ELSE {180 - t : t \in theta0(-x, y)}
    ELSE IF x >= 0 THEN {-t : t \in theta0(x, -y)}
                   ELSE {t - 180 : t \in theta0(-x, -y)}

\* mutant: the boundary 180 sent to -180
angle_mod_360_Strict(angle) ==
    LET n == angle \div 360
        angle_between_0_and_360 == angle - n * 360
    IN  IF angle_between_0_and_360 < 180
        THEN angle_between_0_and_360
        ELSE angle_between_0_and_360 - 360

angle_mod_360(angle) ==
    LET n == angle \div 360
        angle_between_0_and_360 == angle - n * 360
    IN  IF angle_between_0_and_360 <= 180
        THEN angle_between_0_and_360
        ELSE angle_between_0_and_360 - 360

\* mutant: is_reversed ignored
get_waypoints_Unordered(p) == p.waypoints

get_waypoints_ordered_in_driving_direction(p) ==
    IF p.is_reversed THEN Reversed(p.waypoints) ELSE p.waypoints

\* mutant: no wrap from the last waypoint to the first
Interpolate_NoWrap(p, factor, j, i, c) ==
    LET n == Len(p)
        next == IF j + 1 < n THEN j + 1 ELSE j
    IN  (i * p[next + 1][c]) \div factor
      + ((factor - i) * p[j + 1][c]) \div factor

\* mutant: the two weights exchanged
Interpolate_Swapped(p, factor, j, i, c) ==
    LET n == Len(p)
    IN  ((factor - i) * p[((j + 1) % n) + 1][c]) \div factor
      + (i * p[j + 1][c]) \div factor

\* one coordinate of the list comprehension's element for (j, i)
Interpolate(p, factor, j, i, c) ==
    LET n == Len(p)
    IN  (i * p[((j + 1) % n) + 1][c]) \div factor
      + ((factor - i) * p[j + 1][c]) \div factor

\* "for i in range(factor)" for one j
UpSampleInner(p, factor, j) ==
    [k \in 1..factor |-> << Interpolate(p, factor, j, k - 1, 1),
                            Interpolate(p, factor, j, k - 1, 2) >>]

\* mutant: "for j in range(n - 1)", the closing segment left out
RECURSIVE UpSampleFrom_Open(_, _, _)
UpSampleFrom_Open(p, factor, j) ==
    IF j >= Len(p) - 1 THEN << >>
    ELSE UpSampleInner(p, factor, j) \o UpSampleFrom_Open(p, factor, j + 1)

\* "for j in range(n)", from j on
RECURSIVE UpSampleFrom(_, _, _)
UpSampleFrom(p, factor, j) ==
    IF j >= Len(p) THEN << >>
    ELSE UpSampleInner(p, factor, j) \o UpSampleFrom(p, factor, j + 1)

up_sample(p, factor) == UpSampleFrom(p, factor, 0)

Distances(w, car) == [k \in 1..Len(w) |-> distSq(w[k], car)]

ClosestIndex(w, car) ==
    LET distances == Distances(w, car)
        min_dist == Min(Range(distances))
    IN  Index(distances, min_dist)

\* mutant: the list not rotated
StartingWithClosest_Unrotated(w, ic) == w

StartingWithClosest(w, ic) ==
    LET n == Len(w)
    IN  [k \in 1..n |-> w[((k - 1 + ic) % n) + 1]]

Radius(p) == (p.track_width * 9) \div 10

IsInsideList(w, car, r) == [k \in 1..Len(w) |-> IsInside(w[k], car, r)]

Car(p) == << p.x, p.y >>

\* mutant: no floor
ScoreOf_Unclamped(best, steering_angle) ==
    LET error == ((steering_angle - best) * ScoreOne) \div 60
    IN  ScoreOne - Abs(error)

\* mutant: the error not taken in absolute value
ScoreOf_Signed(best, steering_angle) ==
    LET error == ((steering_angle - best) * ScoreOne) \div 60
        s == ScoreOne - error
    IN  Max(s, ScoreFloor)

ScoreOf(best, steering_angle) ==
    LET error == ((steering_angle - best) * ScoreOne) \div 60
        s == ScoreOne - Abs(error)
    IN  Max(s, ScoreFloor)

-----------------------------------------------------------------------------
(* Inputs *)

GridPoints == {<< UpSampleFactor * a, UpSampleFactor * b >> : a \in 0..1, b \in 0..1}

RECURSIVE SeqsUpTo(_, _)
SeqsUpTo(S, n) ==
    IF n = 0 THEN {<< >>}
    ELSE LET shorter == SeqsUpTo(S, n - 1)
         IN  shorter \cup {Append(s, e) : s \in {t \in shorter : Len(t) = n - 1}, e \in S}

WaypointLists == SeqsUpTo(GridPoints, MaxN)

CarCoords == {0, 10, 30}

TrackWidths == {10 * k : k \in -1..MaxTrackWidth}

\* bundles that vary the geometry
GeometryParams ==
    [x : CarCoords, y : {0, 10}, heading : {0}, track_width : TrackWidths,
     is_reversed : BOOLEAN, steering_angle : {0}, waypoints : WaypointLists]

\* bundles that vary the angles over a square track
AngleParams ==
    [x : {0, 10}, y : {10}, heading : {-90, 0, 160}, track_width : {10},
     is_reversed : BOOLEAN, steering_angle : {-30, -15, 0, 15, 30},
     waypoints : {<< <<0, 0>>, <<20, 0>>, <<20, 20>>, <<0, 20>> >>}]

\* get_test_params(), one length unit being 1/2000, with the steering angles of
\* test_score_steer_to_point_ahead
TestParams ==
    [x : {1400}, y : {2100}, heading : {160}, track_width : {900},
     is_reversed : {FALSE}, steering_angle : {-45, -15, 0, 15, 45},
     waypoints : {<< <<1500, -1400>>, <<2000, 0>>, <<1400, 1040>>, <<1160, 1400>>,
                     <<960, 1600>>, <<300, 1900>>, <<-200, 2000>>, <<-1400, 1500>>,
                     <<-1800, 500>>, <<-1800, -1100>> >>}]

Idle ==
    /\ ordered = << >>
    /\ waypoints = << >>
    /\ i_closest = None
    /\ target = << >>
    /\ branch = None
    /\ best_stearing_angle = None
    /\ score = None
    /\ reward = None
    /\ raised = NoError

NoParams ==
    [x |-> 0, y |-> 0, heading |-> 0, track_width |-> 0, is_reversed |-> FALSE,
     steering_angle |-> 0, waypoints |-> << >>]

-----------------------------------------------------------------------------
(* reward_function(params), one action per function of the call chain *)

Init ==
    /\ pc = "start"
    /\ params \in GeometryParams \cup AngleParams \cup TestParams
    /\ Idle
    /\ arg = None
    /\ ret = None

Orient ==
    /\ pc = "start"
    /\ ordered' = get_waypoints_ordered_in_driving_direction(params)
    /\ pc' = "oriented"
    /\ UNCHANGED <<params, waypoints, i_closest, target, branch,
                   best_stearing_angle, score, reward, raised, arg, ret>>

UpSample ==
    /\ pc = "oriented"
    /\ waypoints' = up_sample(ordered, UpSampleFactor)
    /\ pc' = "upsampled"
    /\ UNCHANGED <<params, ordered, i_closest, target, branch,
                   best_stearing_angle, score, reward, raised, arg, ret>>

\* lines 80-84: min() of an empty list raises
Closest ==
    /\ pc = "upsampled"
    /\ IF waypoints = << >>
       THEN /\ raised' = MinOfEmpty
            /\ pc' = "raised"
            /\ UNCHANGED i_closest
       ELSE /\ i_closest' = ClosestIndex(waypoints, Car(params))
            /\ pc' = "closest"
            /\ UNCHANGED raised
    /\ UNCHANGED <<params, ordered, waypoints, target, branch,
                   best_stearing_angle, score, reward, arg, ret>>

\* lines 86-98: list.index(False) raises when no element is False
FirstOutside ==
    /\ pc = "closest"
    /\ LET waypoints_starting_with_closest == StartingWithClosest(waypoints, i_closest)
           r == Radius(params)
           is_inside == IsInsideList(waypoints_starting_with_closest, Car(params), r)
       IN  IF IndexRaises(is_inside, FALSE)
           THEN /\ raised' = NotInList
                /\ pc' = "raised"
                /\ UNCHANGED <<target, branch>>
           ELSE LET i_first_outside == Index(is_inside, FALSE)
                IN  /\ IF i_first_outside < 0
                       THEN /\ target' = waypoints[i_closest + 1]
                            /\ branch' = "fallback"
                       ELSE /\ target' = waypoints_starting_with_closest[i_first_outside + 1]
                            /\ branch' = "first_outside"
                    /\ pc' = "target"
                    /\ UNCHANGED raised
    /\ UNCHANGED <<params, ordered, waypoints, i_closest,
                   best_stearing_angle, score, reward, arg, ret>>

GetTargetSteeringDegree ==
    /\ pc = "target"
    /\ LET dx == target[1] - params.x
           dy == target[2] - params.y
       IN  \E target_angle \in polar_theta(dx, dy) :
               best_stearing_angle' = angle_mod_360(target_angle - params.heading)
    /\ pc' = "steering"
    /\ UNCHANGED <<params, ordered, waypoints, i_closest, target, branch,
                   score, reward, raised, arg, ret>>

ScoreSteerToPointAhead ==
    /\ pc = "steering"
    /\ score' = ScoreOf(best_stearing_angle, params.steering_angle)
    /\ pc' = "score"
    /\ UNCHANGED <<params, ordered, waypoints, i_closest, target, branch,
                   best_stearing_angle, reward, raised, arg, ret>>

RewardFunction ==
    /\ pc = "score"
    /\ reward' = score
    /\ pc' = "done"
    /\ UNCHANGED <<params, ordered, waypoints, i_closest, target, branch,
                   best_stearing_angle, score, raised, arg, ret>>

Next ==
    \/ Orient
    \/ UpSample
    \/ Closest
    \/ FirstOutside
    \/ GetTargetSteeringDegree
    \/ ScoreSteerToPointAhead
    \/ RewardFunction

Spec == Init /\ [][Next]_vars

-----------------------------------------------------------------------------
(* angle_mod_360(angle), called directly *)

InitAngle ==
    /\ pc = "call"
    /\ params = NoParams
    /\ Idle
    /\ arg \in -MaxAngle..MaxAngle
    /\ ret = None

CallAngleMod360 ==
    /\ pc = "call"
    /\ ret' = angle_mod_360(arg)
    /\ pc' = "return"
    /\ UNCHANGED <<params, ordered, waypoints, i_closest, target, branch,
                   best_stearing_angle, score, reward, raised, arg>>

NextAngle == CallAngleMod360

SpecAngle == InitAngle /\ [][NextAngle]_vars

-----------------------------------------------------------------------------
(* up_sample(waypoints, factor), called directly *)

Factors == {f \in 1..UpSampleFactor : UpSampleFactor % f = 0}

InitUpSample ==
    /\ pc = "call"
    /\ params = NoParams
    /\ Idle
    /\ arg \in [waypoints : WaypointLists, factor : Factors]
    /\ ret = None

CallUpSample ==
    /\ pc = "call"
    /\ ret' = up_sample(arg.waypoints, arg.factor)
    /\ pc' = "return"
    /\ UNCHANGED <<params, ordered, waypoints, i_closest, target, branch,
                   best_stearing_angle, score, reward, raised, arg>>

NextUpSample == CallUpSample

SpecUpSample == InitUpSample /\ [][NextUpSample]_vars

-----------------------------------------------------------------------------
(* Vocabulary of the properties *)

\* get_target_point has returned a point
Located == pc \in {"target", "steering", "score", "done"}

\* the scan of get_target_point (lines 86-98) has run
AfterLocator == Located \/ raised = NotInList

\* dist(p, car) >= r
AtLeastRadius(p, car, r) == r <= 0 \/ distSq(p, car) >= r * r

\* the point reached q steps after index ic, cyclically
Cyclic(w, ic, q) == w[((ic + q) % Len(w)) + 1]

Terminated == pc \in {"done", "raised"}

-----------------------------------------------------------------------------
(* C1: when every densified waypoint is strictly within the radius            *)
(* 0.9 * track_width of the vehicle, get_target_point returns the closest      *)
(* point waypoints[i_closest] as a fallback and does not fail.                 *)
C1_FallbackReturnsClosest ==
    ( /\ AfterLocator
      /\ \A k \in 1..Len(waypoints) :
            ~AtLeastRadius(waypoints[k], Car(params), Radius(params)) )
    => ( /\ raised = NoError
         /\ Located
         /\ target = waypoints[i_closest + 1] )

-----------------------------------------------------------------------------
(* C2: every value score_steer_to_point_ahead and reward_function return lies  *)
(* between 0.01 and 1.0, so the reward is strictly positive.                   *)
C2_ScoreBounded ==
    /\ pc \in {"score", "done"} =>
          (score >= ScoreFloor /\ score <= ScoreOne /\ score > 0)
    /\ pc = "done" =>
          (reward >= ScoreFloor /\ reward <= ScoreOne /\ reward > 0)

\* a reward that the floor clamped: the error is beyond 60 degrees
C2_Witness ==
    /\ pc = "done"
    /\ reward = ScoreFloor
    /\ Abs(params.steering_angle - best_stearing_angle) > 60

-----------------------------------------------------------------------------
(* C3: angle_mod_360(a) is the one value of (-180, 180] that differs from a by *)
(* a multiple of 360, so angle_mod_360(a) = angle_mod_360(a + 360 k) for every *)
(* integer k; 270 -> -90, 181 -> -179, 365 -> 5, -722 -> -2, 180 -> 180 and    *)
(* -180 -> 180.                                                                *)
C3_AngleMod360 ==
    pc = "return" =>
        /\ ret > -180 /\ ret <= 180
        /\ (arg - ret) % 360 = 0
        /\ \A v \in -179..180 : (arg - v) % 360 = 0 => v = ret
        /\ \A k \in -MaxTurns..MaxTurns : angle_mod_360(arg + 360 * k) = ret
        /\ arg = 270 => ret = -90
        /\ arg = 181 => ret = -179
        /\ arg = 365 => ret = 5
        /\ arg = -722 => ret = -2
        /\ arg = 180 => ret = 180
        /\ arg = -180 => ret = 180

\* the closed end of the interval, reached from below zero
C3_Witness == pc = "return" /\ arg = -180 /\ ret = 180

-----------------------------------------------------------------------------
(* C4: for n >= 1 waypoints and a factor f >= 1, up_sample returns n * f       *)
(* points, the one at index j * f + i being i/f of the way from p[j] to        *)
(* p[(j + 1) mod n]; element 0 is p[0].                                        *)
C4_UpSampleLayout ==
    (pc = "return" /\ Len(arg.waypoints) >= 1) =>
        LET p == arg.waypoints
            f == arg.factor
            n == Len(p)
        IN  /\ Len(ret) = n * f
            /\ \A j \in 0..(n - 1) : \A i \in 0..(f - 1) : \A c \in 1..2 :
                  f * ret[j * f + i + 1][c]
                      = f * p[j + 1][c] + i * (p[((j + 1) % n) + 1][c] - p[j + 1][c])
            /\ ret[1] = p[1]

\* the last waypoint interpolated back towards a different first one
C4_Witness ==
    /\ pc = "return"
    /\ Len(arg.waypoints) = 3
    /\ arg.factor = 4
    /\ arg.waypoints[3] # arg.waypoints[1]
    /\ arg.waypoints[2] # arg.waypoints[1]
    /\ ret[12] # arg.waypoints[3]
    /\ ret[12] # arg.waypoints[1]

-----------------------------------------------------------------------------
(* C5: up_sample with factor 1 returns its waypoint sequence unchanged.        *)
C5_UpSampleFactorOne ==
    (pc = "return" /\ arg.factor = 1 /\ Len(arg.waypoints) >= 1) =>
        ret = arg.waypoints

C5_Witness ==
    /\ pc = "return"
    /\ arg.factor = 1
    /\ Len(arg.waypoints) = 3
    /\ Cardinality(Range(arg.waypoints)) = 3
    /\ ret = arg.waypoints

-----------------------------------------------------------------------------
(* C6: the score is max(1 - |actual - ideal| / 60, 0.01): 1.0 when actual =    *)
(* ideal, 0.01 when they differ by 60 degrees or more.                         *)
C6_ScoreFormula ==
    pc \in {"score", "done"} =>
        LET d == IF params.steering_angle >= best_stearing_angle
                 THEN params.steering_angle - best_stearing_angle
                 ELSE best_stearing_angle - params.steering_angle
        IN  /\ d = 0 => score = ScoreOne
            /\ d >= 60 => score = ScoreFloor
            /\ d < 60 => 60 * score = (60 - d) * ScoreOne
            /\ 60 * score >= (60 - d) * ScoreOne

\* exactly at the clamp boundary
C6_Witness ==
    /\ pc = "done"
    /\ params.steering_angle = best_stearing_angle - 60
    /\ score = ScoreFloor

-----------------------------------------------------------------------------
(* C7: get_waypoints_ordered_in_driving_direction returns the waypoints in     *)
(* reversed order when is_reversed holds and unchanged otherwise, and the      *)
(* bundle's waypoint list is the same after the call as before it.            *)
C7_Returned ==
    pc # "start" =>
        LET w == params.waypoints
            n == Len(w)
        IN  IF params.is_reversed
            THEN /\ Len(ordered) = n
                 /\ \A k \in 0..(n - 1) : ordered[k + 1] = w[n - k]
            ELSE ordered = w

C7_Orient == [][Orient => (C7_Returned' /\ params' = params)]_vars

C7_Witness ==
    /\ pc = "oriented"
    /\ params.is_reversed
    /\ Len(params.waypoints) = 3
    /\ ordered # params.waypoints
    /\ ordered[1] = params.waypoints[3]

-----------------------------------------------------------------------------
(* C8 as stated: a call with an empty or a single-element waypoint list fails  *)
(* and produces no reward value.                                               *)
C8_ShortListFails ==
    Len(params.waypoints) <= 1 => (~Located /\ (Terminated => raised # NoError))

(* C8 as amended: a call with an empty waypoint list fails, in the locator's   *)
(* min(); a call with a single waypoint does not fail in up_sample, and when   *)
(* that waypoint is at distance >= radius the call returns it as the target    *)
(* and goes on to produce a reward.                                            *)
C8_ShortList ==
    /\ Len(params.waypoints) = 0 =>
          /\ ~Located
          /\ pc \in {"start", "oriented", "upsampled", "raised"}
          /\ pc = "raised" => raised = MinOfEmpty
          /\ pc # "raised" => ENABLED Next
    /\ Len(params.waypoints) = 1 =>
          /\ raised # MinOfEmpty
          /\ pc \in {"upsampled", "closest"} => Len(waypoints) = UpSampleFactor
          /\ AtLeastRadius(params.waypoints[1], Car(params), Radius(params)) =>
                /\ raised = NoError
                /\ Located => target = params.waypoints[1]
                /\ pc # "done" => ENABLED Next

\* a single waypoint, and a reward
C8_Witness ==
    /\ Len(params.waypoints) = 1
    /\ pc = "done"
    /\ reward >= ScoreFloor
    /\ Radius(params) > 0

-----------------------------------------------------------------------------
(* C9: when some densified waypoint is at distance >= radius, get_target_point *)
(* returns the first such point of the cyclic scan that starts at i_closest,   *)
(* the lowest index of minimum distance.                                       *)
C9_FirstOutside ==
    ( /\ AfterLocator
      /\ \E k \in 1..Len(waypoints) :
            AtLeastRadius(waypoints[k], Car(params), Radius(params)) )
    => LET w == waypoints
           n == Len(w)
           car == Car(params)
           r == Radius(params)
       IN  /\ Located
           /\ raised = NoError
           /\ i_closest \in 0..(n - 1)
           /\ \A k \in 1..n : distSq(w[i_closest + 1], car) <= distSq(w[k], car)
           /\ \A k \in 1..i_closest : distSq(w[i_closest + 1], car) < distSq(w[k], car)
           /\ \E m \in 0..(n - 1) :
                 /\ target = Cyclic(w, i_closest, m)
                 /\ AtLeastRadius(target, car, r)
                 /\ \A q \in 0..(m - 1) : ~AtLeastRadius(Cyclic(w, i_closest, q), car, r)
           /\ AtLeastRadius(w[i_closest + 1], car, r) => target = w[i_closest + 1]

\* the scan passes points within the radius and wraps round the end of the list
C9_Witness ==
    /\ pc = "target"
    /\ i_closest > 0
    /\ ~AtLeastRadius(waypoints[i_closest + 1], Car(params), Radius(params))
    /\ \E m \in 1..(Len(waypoints) - 1) :
          /\ i_closest + m >= Len(waypoints)
          /\ target = Cyclic(waypoints, i_closest, m)
          /\ \A q \in 0..(m - 1) :
                ~AtLeastRadius(Cyclic(waypoints, i_closest, q), Car(params), Radius(params))

-----------------------------------------------------------------------------
(* C10 as stated: with track_width zero or negative every call of              *)
(* get_target_point takes the fallback return.                                 *)
C10_FallbackEveryCall ==
    (params.track_width <= 0 /\ AfterLocator) => branch = "fallback"

(* C10 as amended: with track_width zero or negative and a non-empty waypoint  *)
(* list, no call takes the fallback return: no point is within the radius, the *)
(* scan stops at its first point, and the ordinary return gives the closest    *)
(* densified point.                                                            *)
C10_NoFallback ==
    (params.track_width <= 0 /\ Len(params.waypoints) >= 1) =>
        /\ raised = NoError
        /\ pc # "raised"
        /\ Located =>
              /\ branch = "first_outside"
              /\ target = waypoints[i_closest + 1]

C10_Witness ==
    /\ params.track_width < 0
    /\ Len(params.waypoints) = 3
    /\ pc = "target"
    /\ branch = "first_outside"
    /\ target = waypoints[i_closest + 1]
    /\ distSq(target, Car(params)) < Radius(params) * Radius(params)

====
